---- MODULE Spec2Model ----
(***************************************************************************)
(* License server (src/server.js): the PostgreSQL tables license_keys,     *)
(* access_logs, key_ips and users, and the Express request handlers that   *)
(* read and write them.  A handler runs from one `await pool.query` to the *)
(* next: every query is one atomic step of the store, and the synchronous  *)
(* code between two queries belongs to the step of the query before it.    *)
(* Several requests are in flight at once, one per element of the set of   *)
(* request slots handed to a next-state relation.                          *)
(***************************************************************************)
EXTENDS Integers, Sequences, FiniteSets, TLC

\* ------------------------------------------------------------------ bounds

\* Most rows the access_logs table holds before new requests stop arriving.
MaxLog == 2
\* Number of clock advances, and the seconds one advance adds to NOW().
MaxTicks == 2
TickSeconds == 60

\* ------------------------------------------------------------ input domains

Keys == {"TW-A", "TW-B"}
Addrs == {"ip1", "ip2"}
Owners == {"X", "Y"}
Usernames == {"creator", "u1"}
Passwords == {"creator123", "pw"}

\* A missing (undefined / null / empty) value of a request field or column.
NULL == "NULL"
\* A NULL timestamp column.
NoTime == 0 - 1

ADMIN_PASSWORD == "admin123"
\* INTERVAL '60 seconds' of the is_online column.
Window == 60

VARIABLES
    license_keys,   \* table license_keys: license_key -> row
    access_logs,    \* table access_logs: rows in insertion order
    key_ips,        \* table key_ips: set of rows
    users,          \* table users: username -> row
    now,            \* NOW() of the store, in seconds
    pc,             \* per request slot: the await the handler is suspended at
    req,            \* per request slot: the request body (and source address)
    loc,            \* per request slot: the handler's local variables
    resp            \* per request slot: the response sent (status 0: none yet)

vars == <<license_keys, access_logs, key_ips, users, now, pc, req, loc, resp>>
db == <<license_keys, access_logs, key_ips, users>>

Procs == {1, 2}

NoReq == [op |-> "none"]
NoLoc == [userRole |-> NULL]
NoResp == [status |-> 0]

\* ------------------------------------------------------------------ tables

KeyRow(owner, t) ==
    [owner |-> owner, active |-> TRUE, created_at |-> t, last_used |-> NoTime,
     last_heartbeat |-> NoTime, last_ip |-> NULL]

CreatorRow ==
    [password |-> "creator123", role |-> "creator", license_key |-> NULL,
     last_login |-> NoTime]

Remove(f, k) == [x \in DOMAIN f \ {k} |-> f[x]]

LogRow(licenseKey, action, status, ipAddress) ==
    [license_key |-> licenseKey, action |-> action, status |-> status,
     ip_address |-> ipAddress, timestamp |-> now]

\* logAccess: one INSERT into access_logs; an error of the store is caught and
\* only printed.
logAccess(licenseKey, action, status, ok) ==
    access_logs' = IF ok
                   THEN Append(access_logs, LogRow(licenseKey, action, status, NULL))
                   ELSE access_logs

\* Upsert whose conflict target is the key alone: a row of the key, whatever
\* its address, is updated instead of a row being inserted.
Upsert_ConflictOnKey(tbl, k, a, t) ==
    IF \E r \in tbl : r.license_key = k
    THEN {IF r.license_key = k THEN [r EXCEPT !.last_seen = t] ELSE r : r \in tbl}
    ELSE tbl \cup {[license_key |-> k, ip_address |-> a,
                    first_seen |-> t, last_seen |-> t]}

\* Upsert that rewrites first_seen too on a conflict.
Upsert_ResetFirstSeen(tbl, k, a, t) ==
    {r \in tbl : ~(r.license_key = k /\ r.ip_address = a)}
    \cup {[license_key |-> k, ip_address |-> a, first_seen |-> t, last_seen |-> t]}

\* INSERT ... ON CONFLICT (license_key, ip_address) DO UPDATE SET last_seen = NOW()
Upsert(tbl, k, a, t) ==
    IF \E r \in tbl : r.license_key = k /\ r.ip_address = a
    THEN {IF r.license_key = k /\ r.ip_address = a
          THEN [r EXCEPT !.last_seen = t] ELSE r : r \in tbl}
    ELSE tbl \cup {[license_key |-> k, ip_address |-> a,
                    first_seen |-> t, last_seen |-> t]}

\* trackIP: the upsert; an error of the store is caught and only printed.
trackIP(licenseKey, ipAddress, ok) ==
    key_ips' = IF ok THEN Upsert(key_ips, licenseKey, ipAddress, now) ELSE key_ips

\* ----------------------------------------------------------- request slots

SetProc(p, l, lc, r) ==
    /\ pc' = [pc EXCEPT ![p] = l]
    /\ loc' = [loc EXCEPT ![p] = lc]
    /\ resp' = [resp EXCEPT ![p] = r]

Goto(p, l) == SetProc(p, l, loc[p], resp[p])

Respond(p, r) == SetProc(p, "done", loc[p], r)

\* The catch block of an admin handler (and of heartbeat and log-comment).
ServerError == [status |-> 500, success |-> FALSE, message |-> "Erreur serveur"]

InFlight == {q \in Procs : pc[q] \notin {"idle", "done"}}

\* A request arrives at a free slot; every handler appends at most one row to
\* access_logs, so the table never exceeds MaxLog rows.
Arrives(p) ==
    /\ pc[p] = "idle"
    /\ Len(access_logs) + Cardinality(InFlight) < MaxLog

\* The response has been sent and the slot is free again.
Return(p) ==
    /\ pc[p] = "done"
    /\ pc' = [pc EXCEPT ![p] = "idle"]
    /\ req' = [req EXCEPT ![p] = NoReq]
    /\ loc' = [loc EXCEPT ![p] = NoLoc]
    /\ resp' = [resp EXCEPT ![p] = NoResp]
    /\ UNCHANGED <<db, now>>

\* NOW() advances.
Tick ==
    /\ now < MaxTicks * TickSeconds
    /\ now' = now + TickSeconds
    /\ UNCHANGED <<db, pc, req, loc, resp>>

\* ------------------------------------------------------- POST /api/verify

VerifyMissing == [status |-> 400, valid |-> FALSE, message |-> "Cle de licence manquante"]
VerifyInvalid == [status |-> 200, valid |-> FALSE, message |-> "Cle de licence invalide"]
VerifyInactive == [status |-> 200, valid |-> FALSE, message |-> "Cle de licence desactivee"]
VerifyValid(owner) ==
    [status |-> 200, valid |-> TRUE, message |-> "Cle de licence valide", owner |-> owner]
VerifyError == [status |-> 500, valid |-> FALSE, message |-> "Erreur serveur"]

StartVerify(p, k) ==
    /\ Arrives(p)
    /\ req' = [req EXCEPT ![p] = [op |-> "verify", licenseKey |-> k]]
    /\ IF k = NULL THEN Respond(p, VerifyMissing) ELSE Goto(p, "verify_select")
    /\ UNCHANGED <<db, now>>

\* VerifySelect without the test of result.rows.length: keyData is undefined
\* for an unknown key and reading keyData.active throws.
VerifySelect_NoRowTest(p, ok) ==
    /\ pc[p] = "verify_select"
    /\ LET k == req[p].licenseKey IN
       IF ~ok \/ k \notin DOMAIN license_keys THEN Respond(p, VerifyError)
       ELSE LET keyData == license_keys[k] IN
            SetProc(p, IF keyData.active THEN "verify_update"
                                         ELSE "verify_log_inactive",
                    [keyData |-> keyData] @@ loc[p],
                    resp[p])
    /\ UNCHANGED <<db, now, req>>

\* SELECT * FROM license_keys WHERE license_key = $1, and the two branches on it
VerifySelect(p, ok) ==
    /\ pc[p] = "verify_select"
    /\ LET k == req[p].licenseKey IN
       IF ~ok THEN Respond(p, VerifyError)
       ELSE IF k \notin DOMAIN license_keys
            THEN Goto(p, "verify_log_invalid")
            ELSE LET keyData == license_keys[k] IN
                 SetProc(p, IF keyData.active THEN "verify_update"
                                              ELSE "verify_log_inactive",
                         [keyData |-> keyData] @@ loc[p],
                         resp[p])
    /\ UNCHANGED <<db, now, req>>

\* VerifyUpdate whose UPDATE matches no row.
VerifyUpdate_NoWrite(p, ok) ==
    /\ pc[p] = "verify_update"
    /\ IF ~ok THEN Respond(p, VerifyError) ELSE Goto(p, "verify_log_success")
    /\ UNCHANGED <<db, now, req>>

\* UPDATE license_keys SET last_used = NOW() WHERE license_key = $1
VerifyUpdate(p, ok) ==
    /\ pc[p] = "verify_update"
    /\ LET k == req[p].licenseKey IN
       IF ~ok THEN Respond(p, VerifyError) /\ UNCHANGED license_keys
       ELSE /\ license_keys' = IF k \in DOMAIN license_keys
                               THEN [license_keys EXCEPT ![k].last_used = now]
                               ELSE license_keys
            /\ Goto(p, "verify_log_success")
    /\ UNCHANGED <<access_logs, key_ips, users, now, req>>

\* VerifyLog that logs a successful verification only.
VerifyLog_SuccessOnly(p, ok) ==
    /\ pc[p] \in {"verify_log_invalid", "verify_log_inactive", "verify_log_success"}
    /\ LET k == req[p].licenseKey IN
       CASE pc[p] = "verify_log_invalid" ->
                /\ UNCHANGED access_logs
                /\ Respond(p, VerifyInvalid)
         [] pc[p] = "verify_log_inactive" ->
                /\ UNCHANGED access_logs
                /\ Respond(p, VerifyInactive)
         [] pc[p] = "verify_log_success" ->
                /\ logAccess(k, "verify", "success", ok)
                /\ Respond(p, VerifyValid(loc[p].keyData.owner))
    /\ UNCHANGED <<license_keys, key_ips, users, now, req>>

\* await logAccess(licenseKey, 'verify', status), then the response
VerifyLog(p, ok) ==
    /\ pc[p] \in {"verify_log_invalid", "verify_log_inactive", "verify_log_success"}
    /\ LET k == req[p].licenseKey IN
       CASE pc[p] = "verify_log_invalid" ->
                /\ logAccess(k, "verify", "invalid_key", ok)
                /\ Respond(p, VerifyInvalid)
         [] pc[p] = "verify_log_inactive" ->
                /\ logAccess(k, "verify", "inactive", ok)
                /\ Respond(p, VerifyInactive)
         [] pc[p] = "verify_log_success" ->
                /\ logAccess(k, "verify", "success", ok)
                /\ Respond(p, VerifyValid(loc[p].keyData.owner))
    /\ UNCHANGED <<license_keys, key_ips, users, now, req>>

\* ------------------------------------------------------- checkAdminAuth

Unauthorized == [status |-> 401, success |-> FALSE, message |-> "Authentification requise"]

AdminOps == {"create-key", "toggle-key", "delete-key", "detailed-stats",
             "create-user", "update-user-role", "delete-user", "reset-comments"}

BadRequest(message) == [status |-> 400, success |-> FALSE, message |-> message]
Forbidden(message) == [status |-> 403, success |-> FALSE, message |-> message]

\* create-user without the test of the license key of a VA.
EntryCreateUser_NoKeyTest(r) ==
    IF r.newUsername = NULL \/ r.userPassword = NULL \/ r.role = NULL
    THEN [pc |-> "done", resp |-> BadRequest("Username, password et role requis")]
    ELSE IF r.role \notin {"admin", "va"}
    THEN [pc |-> "done", resp |-> BadRequest("Role invalide (admin ou va)")]
    ELSE [pc |-> "create_user_insert", resp |-> NoResp]

\* create-user without the test of the role.
EntryCreateUser_AnyRole(r) ==
    IF r.newUsername = NULL \/ r.userPassword = NULL \/ r.role = NULL
    THEN [pc |-> "done", resp |-> BadRequest("Username, password et role requis")]
    ELSE IF r.role = "va" /\ r.licenseKey = NULL
    THEN [pc |-> "done", resp |-> BadRequest("Cle de licence requise pour les VAs")]
    ELSE [pc |-> "create_user_insert", resp |-> NoResp]

\* create-user before its INSERT: the three tests of the body.
EntryCreateUser(r) ==
    IF r.newUsername = NULL \/ r.userPassword = NULL \/ r.role = NULL
    THEN [pc |-> "done", resp |-> BadRequest("Username, password et role requis")]
    ELSE IF r.role \notin {"admin", "va"}
    THEN [pc |-> "done", resp |-> BadRequest("Role invalide (admin ou va)")]
    ELSE IF r.role = "va" /\ r.licenseKey = NULL
    THEN [pc |-> "done", resp |-> BadRequest("Cle de licence requise pour les VAs")]
    ELSE [pc |-> "create_user_insert", resp |-> NoResp]

\* update-user-role before its UPDATE: the creator is protected, then the
\* tests of the body.
EntryUpdateRole(r) ==
    IF r.targetUsername = "creator"
    THEN [pc |-> "done",
          resp |-> Forbidden("Le role du createur ne peut pas etre modifie")]
    ELSE IF r.newRole \notin {"admin", "va"}
    THEN [pc |-> "done", resp |-> BadRequest("Role invalide")]
    ELSE IF r.newRole = "va" /\ r.newLicenseKey = NULL
    THEN [pc |-> "done", resp |-> BadRequest("Cle de licence requise pour les VAs")]
    ELSE [pc |-> "update_role_update", resp |-> NoResp]

\* delete-user without the protection of the creator.
EntryDeleteUser_Unprotected(r) ==
    [pc |-> "delete_user_delete", resp |-> NoResp]

\* delete-user before its DELETE: the creator is protected.
EntryDeleteUser(r) ==
    IF r.targetUsername = "creator"
    THEN [pc |-> "done",
          resp |-> Forbidden("Le compte createur ne peut pas etre supprime")]
    ELSE [pc |-> "delete_user_delete", resp |-> NoResp]

\* The synchronous head of each admin handler, run by next(): the validation of
\* the body, up to the handler's first query.
Entry(r) ==
    CASE r.op = "create-key" ->
            IF r.owner = NULL
            THEN [pc |-> "done",
                  resp |-> [status |-> 400, success |-> FALSE,
                            message |-> "Nom du proprietaire requis"]]
            ELSE [pc |-> "create_key_insert", resp |-> NoResp]
      [] r.op = "toggle-key" -> [pc |-> "toggle_select", resp |-> NoResp]
      [] r.op = "delete-key" -> [pc |-> "delete_key_delete", resp |-> NoResp]
      [] r.op = "detailed-stats" -> [pc |-> "stats_keys", resp |-> NoResp]
      [] r.op = "create-user" -> EntryCreateUser(r)
      [] r.op = "update-user-role" -> EntryUpdateRole(r)
      [] r.op = "delete-user" -> EntryDeleteUser(r)
      [] r.op = "reset-comments" ->
            IF r.licenseKey = NULL
            THEN [pc |-> "done", resp |-> BadRequest("Cle de licence requise")]
            ELSE [pc |-> "reset_comments_delete", resp |-> NoResp]

\* next(): req.userRole is set and the handler starts.
Enter(p, r, role) ==
    SetProc(p, Entry(r).pc, [userRole |-> role], Entry(r).resp)

\* GrantedRole without the test of user.role: any account is let through.
GrantedRole_AnyRole(r, tbl) ==
    IF r.username \in DOMAIN tbl /\ tbl[r.username].password = r.password
    THEN tbl[r.username].role
    ELSE NULL

\* The role checkAdminAuth grants on the rows of
\* SELECT role FROM users WHERE username = $1 AND password = $2 (NULL: none).
GrantedRole(r, tbl) ==
    IF /\ r.username \in DOMAIN tbl
       /\ tbl[r.username].password = r.password
       /\ tbl[r.username].role \in {"admin", "creator"}
    THEN tbl[r.username].role
    ELSE NULL

\* An admin request arrives at a free slot; reset-comments appends no row to
\* access_logs and needs no room in it.
Admits(p, r) == IF r.op = "reset-comments" THEN pc[p] = "idle" ELSE Arrives(p)

\* checkAdminAuth up to its first await: the static password, or the query.
checkAdminAuth(p, r) ==
    /\ Admits(p, r)
    /\ req' = [req EXCEPT ![p] = r]
    /\ IF r.password = ADMIN_PASSWORD THEN Enter(p, r, "admin")
       ELSE IF r.username # NULL /\ r.password # NULL THEN Goto(p, "auth_select")
       ELSE Respond(p, Unauthorized)
    /\ UNCHANGED <<db, now>>

\* checkAdminAuthSelect that tells an unknown username from a wrong password.
checkAdminAuthSelect_LeaksUsername(p, ok) ==
    /\ pc[p] = "auth_select"
    /\ LET role == IF ok THEN GrantedRole(req[p], users) ELSE NULL IN
       IF role # NULL THEN Enter(p, req[p], role)
       ELSE IF ok /\ req[p].username \notin DOMAIN users
            THEN Respond(p, [status |-> 401, success |-> FALSE,
                             message |-> "Utilisateur inconnu"])
       ELSE Respond(p, Unauthorized)
    /\ UNCHANGED <<db, now, req>>

\* checkAdminAuth after its query; an error of the store is caught and
\* answered like a failed authentication.
checkAdminAuthSelect(p, ok) ==
    /\ pc[p] = "auth_select"
    /\ LET role == IF ok THEN GrantedRole(req[p], users) ELSE NULL IN
       IF role # NULL THEN Enter(p, req[p], role) ELSE Respond(p, Unauthorized)
    /\ UNCHANGED <<db, now, req>>

\* --------------------------------------------- POST /api/admin/create-key

\* 'TW-' + Math.random()...: any token; INSERT INTO license_keys, which the
\* primary key rejects when the token is already a row.
CreateKeyInsert(p, ok) ==
    /\ pc[p] = "create_key_insert"
    /\ \E licenseKey \in Keys :
         IF ok /\ licenseKey \notin DOMAIN license_keys
         THEN /\ license_keys' = license_keys @@ (licenseKey :> KeyRow(req[p].owner, now))
              /\ Respond(p, [status |-> 200, success |-> TRUE, licenseKey |-> licenseKey,
                             message |-> "Cle creee avec succes"])
         ELSE /\ Respond(p, ServerError)
              /\ UNCHANGED license_keys
    /\ UNCHANGED <<access_logs, key_ips, users, now, req>>

\* --------------------------------------------- POST /api/admin/toggle-key

KeyNotFound == [status |-> 404, success |-> FALSE, message |-> "Cle non trouvee"]

\* ToggleSelect that always deactivates (newActive = false).
ToggleSelect_Deactivate(p, ok) ==
    /\ pc[p] = "toggle_select"
    /\ LET k == req[p].licenseKey IN
       IF ~ok THEN Respond(p, ServerError)
       ELSE IF k \notin DOMAIN license_keys THEN Respond(p, KeyNotFound)
       ELSE SetProc(p, "toggle_update", [newActive |-> FALSE] @@ loc[p], resp[p])
    /\ UNCHANGED <<db, now, req>>

\* SELECT active FROM license_keys WHERE license_key = $1; newActive
ToggleSelect(p, ok) ==
    /\ pc[p] = "toggle_select"
    /\ LET k == req[p].licenseKey IN
       IF ~ok THEN Respond(p, ServerError)
       ELSE IF k \notin DOMAIN license_keys THEN Respond(p, KeyNotFound)
       ELSE SetProc(p, "toggle_update",
                    [newActive |-> ~license_keys[k].active] @@ loc[p], resp[p])
    /\ UNCHANGED <<db, now, req>>

\* UPDATE license_keys SET active = $1 WHERE license_key = $2
ToggleUpdate(p, ok) ==
    /\ pc[p] = "toggle_update"
    /\ LET k == req[p].licenseKey IN
       IF ~ok THEN Respond(p, ServerError) /\ UNCHANGED license_keys
       ELSE /\ license_keys' = IF k \in DOMAIN license_keys
                               THEN [license_keys EXCEPT ![k].active = loc[p].newActive]
                               ELSE license_keys
            /\ Goto(p, "toggle_log")
    /\ UNCHANGED <<access_logs, key_ips, users, now, req>>

\* ToggleLog around a logAccess that lets the error of its INSERT through:
\* the catch block of the handler answers 500.
ToggleLog_Propagates(p, ok) ==
    /\ pc[p] = "toggle_log"
    /\ LET newActive == loc[p].newActive IN
       /\ logAccess(req[p].licenseKey, "toggle",
                    IF newActive THEN "activated" ELSE "deactivated", ok)
       /\ IF ok
          THEN Respond(p, [status |-> 200, success |-> TRUE, active |-> newActive,
                           message |-> IF newActive THEN "Cle activee"
                                                    ELSE "Cle desactivee"])
          ELSE Respond(p, ServerError)
    /\ UNCHANGED <<license_keys, key_ips, users, now, req>>

\* await logAccess(licenseKey, 'toggle', ...), then the response
ToggleLog(p, ok) ==
    /\ pc[p] = "toggle_log"
    /\ LET newActive == loc[p].newActive IN
       /\ logAccess(req[p].licenseKey, "toggle",
                    IF newActive THEN "activated" ELSE "deactivated", ok)
       /\ Respond(p, [status |-> 200, success |-> TRUE, active |-> newActive,
                      message |-> IF newActive THEN "Cle activee" ELSE "Cle desactivee"])
    /\ UNCHANGED <<license_keys, key_ips, users, now, req>>

\* --------------------------------------------- POST /api/admin/delete-key

\* DeleteKeyDelete on a schema where access_logs references license_keys
\* ON DELETE CASCADE: the rows of the key go with it.
DeleteKeyDelete_Cascade(p, ok) ==
    /\ pc[p] = "delete_key_delete"
    /\ LET k == req[p].licenseKey IN
       IF ~ok THEN Respond(p, ServerError) /\ UNCHANGED <<license_keys, access_logs>>
       ELSE IF k \notin DOMAIN license_keys
            THEN Respond(p, KeyNotFound) /\ UNCHANGED <<license_keys, access_logs>>
       ELSE /\ license_keys' = Remove(license_keys, k)
            /\ access_logs' = SelectSeq(access_logs, LAMBDA r : r.license_key # k)
            /\ Goto(p, "delete_key_log")
    /\ UNCHANGED <<key_ips, users, now, req>>

\* DeleteKeyDelete without the test of result.rows.length: a DELETE that
\* matched no row is logged and answered like a deletion.
DeleteKeyDelete_NoRowTest(p, ok) ==
    /\ pc[p] = "delete_key_delete"
    /\ LET k == req[p].licenseKey IN
       IF ~ok THEN Respond(p, ServerError) /\ UNCHANGED license_keys
       ELSE /\ license_keys' = IF k \in DOMAIN license_keys
                               THEN Remove(license_keys, k) ELSE license_keys
            /\ Goto(p, "delete_key_log")
    /\ UNCHANGED <<access_logs, key_ips, users, now, req>>

\* DELETE FROM license_keys WHERE license_key = $1 RETURNING *
DeleteKeyDelete(p, ok) ==
    /\ pc[p] = "delete_key_delete"
    /\ LET k == req[p].licenseKey IN
       IF ~ok THEN Respond(p, ServerError) /\ UNCHANGED license_keys
       ELSE IF k \notin DOMAIN license_keys
            THEN Respond(p, KeyNotFound) /\ UNCHANGED license_keys
       ELSE /\ license_keys' = Remove(license_keys, k)
            /\ Goto(p, "delete_key_log")
    /\ UNCHANGED <<access_logs, key_ips, users, now, req>>

\* await logAccess(licenseKey, 'delete', 'success'), then the response
DeleteKeyLog(p, ok) ==
    /\ pc[p] = "delete_key_log"
    /\ logAccess(req[p].licenseKey, "delete", "success", ok)
    /\ Respond(p, [status |-> 200, success |-> TRUE, message |-> "Cle supprimee"])
    /\ UNCHANGED <<license_keys, key_ips, users, now, req>>

\* ---------------------------------------------------- POST /api/heartbeat

HeartbeatMissing ==
    [status |-> 400, success |-> FALSE, message |-> "Cle de licence manquante"]
HeartbeatOk == [status |-> 200, success |-> TRUE, message |-> "Heartbeat enregistre"]

\* ipAddress: the x-forwarded-for header or the socket's remote address.
StartHeartbeat(p, k, ipAddress) ==
    /\ Arrives(p)
    /\ req' = [req EXCEPT ![p] = [op |-> "heartbeat", licenseKey |-> k, ip |-> ipAddress]]
    /\ IF k = NULL THEN Respond(p, HeartbeatMissing) ELSE Goto(p, "heartbeat_update")
    /\ UNCHANGED <<db, now>>

\* HeartbeatUpdate in a handler without try/catch: the rejected query ends
\* the async handler and no response is ever sent.
HeartbeatUpdate_Uncaught(p, ok) ==
    /\ pc[p] = "heartbeat_update"
    /\ LET k == req[p].licenseKey IN
       IF ~ok THEN Goto(p, "rejected") /\ UNCHANGED license_keys
       ELSE /\ license_keys' =
                  IF k \in DOMAIN license_keys
                  THEN [license_keys EXCEPT ![k].last_heartbeat = now,
                                            ![k].last_ip = req[p].ip]
                  ELSE license_keys
            /\ Goto(p, "heartbeat_track")
    /\ UNCHANGED <<access_logs, key_ips, users, now, req>>

\* UPDATE license_keys SET last_heartbeat = NOW(), last_ip = $2 WHERE license_key = $1
\* (no row matched is no error)
HeartbeatUpdate(p, ok) ==
    /\ pc[p] = "heartbeat_update"
    /\ LET k == req[p].licenseKey IN
       IF ~ok THEN Respond(p, ServerError) /\ UNCHANGED license_keys
       ELSE /\ license_keys' =
                  IF k \in DOMAIN license_keys
                  THEN [license_keys EXCEPT ![k].last_heartbeat = now,
                                            ![k].last_ip = req[p].ip]
                  ELSE license_keys
            /\ Goto(p, "heartbeat_track")
    /\ UNCHANGED <<access_logs, key_ips, users, now, req>>

\* await trackIP(licenseKey, ipAddress), then the response
HeartbeatTrack(p, ok) ==
    /\ pc[p] = "heartbeat_track"
    /\ trackIP(req[p].licenseKey, req[p].ip, ok)
    /\ Respond(p, HeartbeatOk)
    /\ UNCHANGED <<license_keys, access_logs, users, now, req>>

\* ------------------------------------------ POST /api/admin/detailed-stats

\* is_online with >= for >.
is_online_Inclusive(last_heartbeat, t) ==
    IF last_heartbeat = NoTime THEN NULL
    ELSE IF last_heartbeat >= t - Window THEN "true" ELSE "false"

\* (last_heartbeat > NOW() - INTERVAL '60 seconds') as is_online; NULL when
\* last_heartbeat is NULL.
is_online(last_heartbeat, t) ==
    IF last_heartbeat = NoTime THEN NULL
    ELSE IF last_heartbeat > t - Window THEN "true" ELSE "false"

\* SELECT COUNT(*) FROM access_logs WHERE license_key = $1 AND action = $2
CountByAction(k, action) ==
    Cardinality({i \in 1..Len(access_logs) :
                    access_logs[i].license_key = k /\ access_logs[i].action = action})

\* SELECT ip_address, first_seen, last_seen FROM key_ips WHERE license_key = $1
IpsOf(k) == {r \in key_ips : r.license_key = k}

\* SELECT COUNT(DISTINCT ip_address) FROM key_ips WHERE license_key = $1
UniqueIps(k) == Cardinality({r.ip_address : r \in IpsOf(k)})

\* The response once the three queries of every row have answered.
StatsResponse(rows, counts) ==
    [status |-> 200, success |-> TRUE,
     stats |-> [k \in DOMAIN rows |->
                   [licenseKey |-> k, owner |-> rows[k].owner, active |-> rows[k].active,
                    createdAt |-> rows[k].created_at, lastUsed |-> rows[k].last_used,
                    lastHeartbeat |-> rows[k].last_heartbeat, lastIp |-> rows[k].last_ip,
                    isOnline |-> rows[k].is_online,
                    commentsCount |-> counts[k].commentsCount,
                    uniqueIps |-> counts[k].uniqueIps,
                    ips |-> counts[k].ips]]]

\* SELECT ..., is_online FROM license_keys; then Promise.all starts the
\* per-row queries.
StatsKeys(p, ok) ==
    /\ pc[p] = "stats_keys"
    /\ IF ~ok THEN Respond(p, ServerError)
       ELSE LET rows == [k \in DOMAIN license_keys |->
                           [is_online |-> is_online(license_keys[k].last_heartbeat, now)]
                           @@ license_keys[k]]
            IN IF DOMAIN rows = {}
               THEN Respond(p, StatsResponse(rows, <<>>))
               ELSE SetProc(p, "stats_counts",
                            [rows |-> rows,
                             counts |-> [k \in DOMAIN rows |-> [stage |-> 0]]] @@ loc[p],
                            resp[p])
    /\ UNCHANGED <<db, now, req>>

\* The next of the three queries of the row of key k (comments, unique
\* addresses, address list); the rows' queries run in any order.  A failed
\* query rejects Promise.all.
StatsQuery(p, k, ok) ==
    /\ pc[p] = "stats_counts"
    /\ k \in DOMAIN loc[p].counts
    /\ loc[p].counts[k].stage < 3
    /\ IF ~ok THEN Respond(p, ServerError)
       ELSE LET c == loc[p].counts[k]
                d == CASE c.stage = 0 ->
                            [stage |-> 1,
                             commentsCount |-> CountByAction(k, "comment_posted")]
                       [] c.stage = 1 -> [stage |-> 2, uniqueIps |-> UniqueIps(k)] @@ c
                       [] c.stage = 2 -> [stage |-> 3, ips |-> IpsOf(k)] @@ c
                counts == [loc[p].counts EXCEPT ![k] = d]
            IN IF \A j \in DOMAIN counts : counts[j].stage = 3
               THEN SetProc(p, "done", [loc[p] EXCEPT !.counts = counts],
                            StatsResponse(loc[p].rows, counts))
               ELSE SetProc(p, "stats_counts", [loc[p] EXCEPT !.counts = counts], resp[p])
    /\ UNCHANGED <<db, now, req>>

\* -------------------------------------------- POST /api/admin/create-user

\* The INSERT of create-user on a table without the UNIQUE constraint on
\* username: the row of a taken username is replaced.
CreateUserInsert_NoUnique(p, ok) ==
    /\ pc[p] = "create_user_insert"
    /\ LET r == req[p] IN
       IF ~ok THEN Respond(p, ServerError) /\ UNCHANGED users
       ELSE /\ users' = (r.newUsername :>
                            [password |-> r.userPassword, role |-> r.role,
                             license_key |-> r.licenseKey, last_login |-> NoTime])
                        @@ users
            /\ Respond(p, [status |-> 200, success |-> TRUE,
                           message |-> IF r.role = "admin" THEN "Admin cree avec succes"
                                                           ELSE "VA cree avec succes"])
    /\ UNCHANGED <<license_keys, access_logs, key_ips, now, req>>

\* INSERT INTO users (username, password, role, license_key); the UNIQUE
\* constraint on username raises error 23505.
CreateUserInsert(p, ok) ==
    /\ pc[p] = "create_user_insert"
    /\ LET r == req[p] IN
       IF ~ok THEN Respond(p, ServerError) /\ UNCHANGED users
       ELSE IF r.newUsername \in DOMAIN users
            THEN /\ Respond(p, BadRequest("Ce nom d'utilisateur existe deja"))
                 /\ UNCHANGED users
       ELSE /\ users' = users @@ (r.newUsername :>
                            [password |-> r.userPassword, role |-> r.role,
                             license_key |-> r.licenseKey, last_login |-> NoTime])
            /\ Respond(p, [status |-> 200, success |-> TRUE,
                           message |-> IF r.role = "admin" THEN "Admin cree avec succes"
                                                           ELSE "VA cree avec succes"])
    /\ UNCHANGED <<license_keys, access_logs, key_ips, now, req>>

\* --------------------------------------- POST /api/admin/update-user-role

\* UPDATE users SET role = $1, license_key = $2 WHERE username = $3
\* (no row matched is no error)
UpdateRoleUpdate(p, ok) ==
    /\ pc[p] = "update_role_update"
    /\ LET r == req[p] IN
       IF ~ok THEN Respond(p, ServerError) /\ UNCHANGED users
       ELSE /\ users' =
                  IF r.targetUsername \in DOMAIN users
                  THEN [users EXCEPT ![r.targetUsername].role = r.newRole,
                                     ![r.targetUsername].license_key =
                                         IF r.newRole = "va" THEN r.newLicenseKey ELSE NULL]
                  ELSE users
            /\ Respond(p, [status |-> 200, success |-> TRUE, message |-> "Role mis a jour"])
    /\ UNCHANGED <<license_keys, access_logs, key_ips, now, req>>

\* -------------------------------------------- POST /api/admin/delete-user

\* DELETE FROM users WHERE username = $1 RETURNING *
DeleteUserDelete(p, ok) ==
    /\ pc[p] = "delete_user_delete"
    /\ LET u == req[p].targetUsername IN
       IF ~ok THEN Respond(p, ServerError) /\ UNCHANGED users
       ELSE IF u \notin DOMAIN users
            THEN /\ Respond(p, [status |-> 404, success |-> FALSE,
                                message |-> "Utilisateur non trouve"])
                 /\ UNCHANGED users
       ELSE /\ users' = Remove(users, u)
            /\ Respond(p, [status |-> 200, success |-> TRUE,
                           message |-> "Utilisateur supprime"])
    /\ UNCHANGED <<license_keys, access_logs, key_ips, now, req>>

\* ---------------------------------------------------- POST /api/log-comment

\* The body is read: 400 without a licenseKey, else the lookup is sent.
StartLogComment(p, k) ==
    /\ Arrives(p)
    /\ req' = [req EXCEPT ![p] = [op |-> "log-comment", licenseKey |-> k]]
    /\ IF k = NULL THEN Respond(p, HeartbeatMissing) ELSE Goto(p, "comment_select")
    /\ UNCHANGED <<db, now>>

\* SELECT * FROM license_keys WHERE license_key = $1
LogCommentSelect(p, ok) ==
    /\ pc[p] = "comment_select"
    /\ IF ~ok THEN Respond(p, ServerError)
       ELSE IF req[p].licenseKey \notin DOMAIN license_keys THEN Respond(p, KeyNotFound)
       ELSE Goto(p, "comment_log")
    /\ UNCHANGED <<db, now, req>>

\* await logAccess(licenseKey, 'comment_posted', 'success'), then the response
LogCommentLog(p, ok) ==
    /\ pc[p] = "comment_log"
    /\ logAccess(req[p].licenseKey, "comment_posted", "success", ok)
    /\ Respond(p, [status |-> 200, success |-> TRUE,
                   message |-> "Commentaire enregistre"])
    /\ UNCHANGED <<license_keys, key_ips, users, now, req>>

\* -------------------------------------------- POST /api/admin/reset-comments

\* The row r of access_logs is a comment of the key k.
IsCommentOf(r, k) == r.license_key = k /\ r.action = "comment_posted"

\* The DELETE of reset-comments without the test of the action: every row of
\* the key is deleted.
ResetCommentsDelete_AnyAction(p, ok) ==
    /\ pc[p] = "reset_comments_delete"
    /\ LET k == req[p].licenseKey
           kept == SelectSeq(access_logs, LAMBDA r : r.license_key # k)
           rowCount == Len(access_logs) - Len(kept)
       IN IF ~ok THEN Respond(p, ServerError) /\ UNCHANGED access_logs
          ELSE /\ access_logs' = kept
               /\ Respond(p, [status |-> 200, success |-> TRUE,
                              deletedCount |-> rowCount])
    /\ UNCHANGED <<license_keys, key_ips, users, now, req>>

\* DELETE FROM access_logs WHERE license_key = $1 AND action = 'comment_posted'
\* RETURNING *; the answer carries result.rowCount.
ResetCommentsDelete(p, ok) ==
    /\ pc[p] = "reset_comments_delete"
    /\ LET k == req[p].licenseKey
           kept == SelectSeq(access_logs, LAMBDA r : ~IsCommentOf(r, k))
           rowCount == Len(access_logs) - Len(kept)
       IN IF ~ok THEN Respond(p, ServerError) /\ UNCHANGED access_logs
          ELSE /\ access_logs' = kept
               /\ Respond(p, [status |-> 200, success |-> TRUE,
                              deletedCount |-> rowCount])
    /\ UNCHANGED <<license_keys, key_ips, users, now, req>>

\* ------------------------------------------------------- POST /api/login

\* The body is destructured and the first query is sent.
StartLogin(p, username, password) ==
    /\ Arrives(p)
    /\ req' = [req EXCEPT ![p] = [op |-> "login", username |-> username,
                                  password |-> password]]
    /\ Goto(p, "login_select")
    /\ UNCHANGED <<db, now>>

\* SELECT * FROM users WHERE username = $1 AND password = $2
LoginSelect(p, ok) ==
    /\ pc[p] = "login_select"
    /\ LET r == req[p] IN
       IF ~ok THEN Respond(p, ServerError)
       ELSE IF r.username \in DOMAIN users /\ users[r.username].password = r.password
            THEN SetProc(p, "login_update", [user |-> users[r.username]] @@ loc[p],
                         resp[p])
       ELSE Goto(p, "login_guest_select")
    /\ UNCHANGED <<db, now, req>>

\* UPDATE users SET last_login = NOW() WHERE username = $1, then the answer
\* built from the row the SELECT returned.
LoginUpdate(p, ok) ==
    /\ pc[p] = "login_update"
    /\ LET u == req[p].username IN
       IF ~ok THEN Respond(p, ServerError) /\ UNCHANGED users
       ELSE /\ users' = IF u \in DOMAIN users
                        THEN [users EXCEPT ![u].last_login = now]
                        ELSE users
            /\ Respond(p, [status |-> 200, success |-> TRUE,
                           role |-> loc[p].user.role, username |-> u,
                           licenseKey |-> loc[p].user.license_key])
    /\ UNCHANGED <<license_keys, access_logs, key_ips, now, req>>

\* SELECT * FROM guest_users WHERE username = $1 AND password = $2; the table
\* guest_users is no part of the state: found is what the query returns.
LoginGuestSelect(p, ok, found) ==
    /\ pc[p] = "login_guest_select"
    /\ IF ~ok THEN Respond(p, ServerError)
       ELSE IF found THEN Goto(p, "login_guest_update")
       ELSE Respond(p, [status |-> 200, success |-> FALSE,
                        message |-> "Identifiants invalides"])
    /\ UNCHANGED <<db, now, req>>

\* UPDATE guest_users SET last_login = NOW() WHERE username = $1
LoginGuestUpdate(p, ok) ==
    /\ pc[p] = "login_guest_update"
    /\ IF ~ok THEN Respond(p, ServerError)
       ELSE Respond(p, [status |-> 200, success |-> TRUE, role |-> "guest",
                        username |-> req[p].username])
    /\ UNCHANGED <<db, now, req>>

\* --------------------------------------------------------- initDatabase

\* The server starts again on the same database: INSERT INTO users
\* ('creator', 'creator123', 'creator') ON CONFLICT (username) DO NOTHING; an
\* error of the statement is caught and logged. The CREATE TABLE IF NOT
\* EXISTS statements before it leave existing tables alone.
initDatabase(ok) ==
    /\ users' = IF ok /\ "creator" \notin DOMAIN users
                THEN users @@ ("creator" :> CreatorRow)
                ELSE users
    /\ UNCHANGED <<license_keys, access_logs, key_ips, now, pc, req, loc, resp>>

\* ------------------------------------------------------------ specifications

\* The store after initDatabase on an empty database.
Init ==
    /\ license_keys = <<>>
    /\ access_logs = <<>>
    /\ key_ips = {}
    /\ users = ("creator" :> CreatorRow)
    /\ now = 0
    /\ pc = [p \in Procs |-> "idle"]
    /\ req = [p \in Procs |-> NoReq]
    /\ loc = [p \in Procs |-> NoLoc]
    /\ resp = [p \in Procs |-> NoResp]

StaticCreds == {[username |-> NULL, password |-> ADMIN_PASSWORD],
                [username |-> NULL, password |-> "wrong"]}

KeyAdminBodies ==
    [op : {"create-key"}, owner : Owners \cup {NULL}]
    \cup [op : {"toggle-key", "delete-key"}, licenseKey : Keys]

\* The key lifecycle: verify, create-key, toggle-key and delete-key, the
\* requests of the slots P in flight together; F: the outcomes of a query
\* (TRUE: it succeeds, FALSE: the store raises an error).
KeysNext(P, F) ==
    \E p \in P :
        \/ \E k \in Keys \cup {NULL} : StartVerify(p, k)
        \/ \E b \in KeyAdminBodies, c \in StaticCreds : checkAdminAuth(p, b @@ c)
        \/ \E ok \in F : VerifySelect(p, ok)
        \/ \E ok \in F : VerifyUpdate(p, ok)
        \/ \E ok \in F : VerifyLog(p, ok)
        \/ \E ok \in F : CreateKeyInsert(p, ok)
        \/ \E ok \in F : ToggleSelect(p, ok)
        \/ \E ok \in F : ToggleUpdate(p, ok)
        \/ \E ok \in F : ToggleLog(p, ok)
        \/ \E ok \in F : DeleteKeyDelete(p, ok)
        \/ \E ok \in F : DeleteKeyLog(p, ok)
        \/ Return(p)

Next == KeysNext(Procs, {TRUE})

\* A store holding one license key that create-key issued, TW-A; TW-B was
\* never issued.
InitPresence ==
    /\ license_keys = ("TW-A" :> KeyRow("X", 0))
    /\ access_logs = <<>>
    /\ key_ips = {}
    /\ users = ("creator" :> CreatorRow)
    /\ now = 0
    /\ pc = [p \in Procs |-> "idle"]
    /\ req = [p \in Procs |-> NoReq]
    /\ loc = [p \in Procs |-> NoLoc]
    /\ resp = [p \in Procs |-> NoResp]

StaticAdmin == [username |-> NULL, password |-> ADMIN_PASSWORD]

\* Presence: heartbeats and the detailed statistics.
PresenceNext(P, F) ==
    \E p \in P :
        \/ \E k \in Keys \cup {NULL}, a \in Addrs : StartHeartbeat(p, k, a)
        \/ checkAdminAuth(p, [op |-> "detailed-stats"] @@ StaticAdmin)
        \/ \E ok \in F : HeartbeatUpdate(p, ok)
        \/ \E ok \in F : HeartbeatTrack(p, ok)
        \/ \E ok \in F : StatsKeys(p, ok)
        \/ \E ok \in F, k \in Keys : StatsQuery(p, k, ok)
        \/ Return(p)

\* One request at a time, while time passes.
SpecPresence == InitPresence /\ [][PresenceNext({1}, {TRUE}) \/ Tick]_vars

\* Two requests in flight together.
SpecBeats == InitPresence /\ [][PresenceNext(Procs, {TRUE})]_vars

Spec == Init /\ [][Next]_vars

\* The credentials a request may carry: none, the static password, or a
\* username with a password.
GateCreds == [username : {NULL, "creator", "u1"},
              password : {NULL, ADMIN_PASSWORD, "creator123", "pw"}]

GateBodies ==
    [op : {"create-user"}, newUsername : {"u1"}, userPassword : {"pw"},
     role : {"admin", "va"}, licenseKey : {"TW-A"}]
    \cup [op : {"update-user-role"}, targetUsername : {"u1"},
          newRole : {"admin", "va"}, newLicenseKey : {"TW-A"}]
    \cup [op : {"delete-user"}, targetUsername : {"u1"}]
    \cup [op : {"create-key"}, owner : {"X"}]
    \cup [op : {"toggle-key", "delete-key"}, licenseKey : {"TW-A"}]

\* The admin surface behind checkAdminAuth, with accounts created, changed
\* and removed while requests authenticate.
GateNext(P, F) ==
    \E p \in P :
        \/ \E b \in GateBodies, c \in GateCreds : checkAdminAuth(p, b @@ c)
        \/ \E ok \in F : checkAdminAuthSelect(p, ok)
        \/ \E ok \in F : CreateUserInsert(p, ok)
        \/ \E ok \in F : UpdateRoleUpdate(p, ok)
        \/ \E ok \in F : DeleteUserDelete(p, ok)
        \/ \E ok \in F : CreateKeyInsert(p, ok)
        \/ \E ok \in F : ToggleSelect(p, ok)
        \/ \E ok \in F : ToggleUpdate(p, ok)
        \/ \E ok \in F : ToggleLog(p, ok)
        \/ \E ok \in F : DeleteKeyDelete(p, ok)
        \/ \E ok \in F : DeleteKeyLog(p, ok)
        \/ Return(p)

\* Every query may fail.
SpecGate == Init /\ [][GateNext({1}, BOOLEAN)]_vars

\* One request at a time.
SpecSeq == Init /\ [][KeysNext({1}, {TRUE}) \/ Tick]_vars

\* The callers of the account routes: the static password, the creator, and
\* u1 (let through while u1 is an admin).
AccountCreds == {StaticAdmin,
                 [username |-> "creator", password |-> "creator123"],
                 [username |-> "u1", password |-> "pw"]}

AccountBodies ==
    [op : {"create-user"}, newUsername : Usernames, userPassword : {"pw", "pw2"},
     role : {"admin", "va", "creator"}, licenseKey : {NULL, "TW-A"}]
    \cup [op : {"update-user-role"}, targetUsername : Usernames,
          newRole : {"admin", "va", "creator"}, newLicenseKey : {NULL, "TW-A"}]
    \cup [op : {"delete-user"}, targetUsername : Usernames]

\* The accounts: create-user, update-user-role, delete-user and login, while
\* the server may start again.
AccountsNext(P, F, B, C) ==
    \/ \E ok \in F : initDatabase(ok)
    \/ \E p \in P :
        \/ \E b \in B, c \in C : checkAdminAuth(p, b @@ c)
        \/ \E u \in Usernames, pw \in Passwords : StartLogin(p, u, pw)
        \/ \E ok \in F : checkAdminAuthSelect(p, ok)
        \/ \E ok \in F : CreateUserInsert(p, ok)
        \/ \E ok \in F : UpdateRoleUpdate(p, ok)
        \/ \E ok \in F : DeleteUserDelete(p, ok)
        \/ \E ok \in F : LoginSelect(p, ok)
        \/ \E ok \in F : LoginUpdate(p, ok)
        \/ \E ok \in F, found \in BOOLEAN : LoginGuestSelect(p, ok, found)
        \/ \E ok \in F : LoginGuestUpdate(p, ok)
        \/ Return(p)

\* One request at a time, every query may fail.
SpecAccounts ==
    Init /\ [][AccountsNext({1}, BOOLEAN, AccountBodies, AccountCreds)]_vars

\* The requests that create, change and remove the account u1.
RaceBodies ==
    [op : {"create-user"}, newUsername : {"u1"}, userPassword : {"pw", "pw2"},
     role : {"admin", "va"}, licenseKey : {"TW-A"}]
    \cup [op : {"update-user-role"}, targetUsername : {"u1"},
          newRole : {"admin", "va"}, newLicenseKey : {"TW-A"}]
    \cup [op : {"delete-user"}, targetUsername : {"u1"}]

\* Two requests in flight together.
SpecAccountsRace ==
    Init /\ [][AccountsNext(Procs, {TRUE}, RaceBodies,
                            {StaticAdmin, [username |-> "creator",
                                           password |-> "creator123"]})]_vars

\* A store holding the two license keys.
InitComments ==
    /\ license_keys = [k \in Keys |-> KeyRow("X", 0)]
    /\ access_logs = <<>>
    /\ key_ips = {}
    /\ users = ("creator" :> CreatorRow)
    /\ now = 0
    /\ pc = [p \in Procs |-> "idle"]
    /\ req = [p \in Procs |-> NoReq]
    /\ loc = [p \in Procs |-> NoLoc]
    /\ resp = [p \in Procs |-> NoResp]

\* The comments: log-comment and reset-comments, with verify writing rows of
\* another action and delete-key removing a key.
CommentsNext(P, F) ==
    \E p \in P :
        \/ \E k \in Keys \cup {NULL} : StartLogComment(p, k)
        \/ \E k \in Keys : StartVerify(p, k)
        \/ \E k \in Keys \cup {NULL} :
              checkAdminAuth(p, [op |-> "reset-comments", licenseKey |-> k] @@ StaticAdmin)
        \/ checkAdminAuth(p, [op |-> "delete-key", licenseKey |-> "TW-B"] @@ StaticAdmin)
        \/ \E ok \in F : LogCommentSelect(p, ok)
        \/ \E ok \in F : LogCommentLog(p, ok)
        \/ \E ok \in F : ResetCommentsDelete(p, ok)
        \/ \E ok \in F : VerifySelect(p, ok)
        \/ \E ok \in F : VerifyUpdate(p, ok)
        \/ \E ok \in F : VerifyLog(p, ok)
        \/ \E ok \in F : DeleteKeyDelete(p, ok)
        \/ \E ok \in F : DeleteKeyLog(p, ok)
        \/ Return(p)

\* Two requests in flight together.
SpecComments == InitComments /\ [][CommentsNext(Procs, {TRUE})]_vars

\* The key lifecycle, one request at a time, every query may fail.
SpecKeyFaults == InitPresence /\ [][KeysNext({1}, BOOLEAN)]_vars

\* Heartbeats of the key TW-A alone.
BeatsNext(P, F) ==
    \E p \in P :
        \/ \E a \in Addrs : StartHeartbeat(p, "TW-A", a)
        \/ \E ok \in F : HeartbeatUpdate(p, ok)
        \/ \E ok \in F : HeartbeatTrack(p, ok)
        \/ Return(p)

\* Two heartbeats in flight together, while time passes.
SpecBeatsTimed == InitPresence /\ [][BeatsNext(Procs, {TRUE}) \/ Tick]_vars

\* One heartbeat at a time, while time passes; every query may fail.
SpecBeatFaults == InitPresence /\ [][BeatsNext({1}, BOOLEAN) \/ Tick]_vars

\* The comments, one request at a time, every query may fail.
SpecCommentFaults == InitComments /\ [][CommentsNext({1}, BOOLEAN)]_vars

\* The callers of the admin routes: none, the static password, the creator.
LiveCreds == {[username |-> NULL, password |-> NULL], StaticAdmin,
              [username |-> "creator", password |-> "creator123"]}

LiveBodies ==
    [op : {"create-key"}, owner : {"X", NULL}]
    \cup [op : {"toggle-key", "delete-key", "reset-comments"}, licenseKey : {"TW-A"}]
    \cup [op : {"detailed-stats"}]
    \cup [op : {"create-user"}, newUsername : {"u1"}, userPassword : {"pw"},
          role : {"va"}, licenseKey : {NULL, "TW-A"}]
    \cup [op : {"update-user-role"}, targetUsername : {"u1"},
          newRole : {"admin"}, newLicenseKey : {NULL}]
    \cup [op : {"delete-user"}, targetUsername : Usernames]

\* The rows of access_logs after which no further request is let in.
LiveLog == 1

\* A request arrives at the slot p.
LiveArrival(p) ==
    /\ Len(access_logs) < LiveLog
    /\ \/ \E k \in {"TW-A", NULL} : StartVerify(p, k)
       \/ \E k \in {"TW-A", NULL} : StartHeartbeat(p, k, "ip1")
       \/ \E b \in LiveBodies, c \in LiveCreds : checkAdminAuth(p, b @@ c)

\* The store answers the query the slot p is waiting for (F: with a result
\* or with an error) and the handler runs up to its next query or response.
LiveProgress(p, F) ==
    \/ \E ok \in F : checkAdminAuthSelect(p, ok)
    \/ \E ok \in F : VerifySelect(p, ok)
    \/ \E ok \in F : VerifyUpdate(p, ok)
    \/ \E ok \in F : VerifyLog(p, ok)
    \/ \E ok \in F : HeartbeatUpdate(p, ok)
    \/ \E ok \in F : HeartbeatTrack(p, ok)
    \/ \E ok \in F : CreateKeyInsert(p, ok)
    \/ \E ok \in F : ToggleSelect(p, ok)
    \/ \E ok \in F : ToggleUpdate(p, ok)
    \/ \E ok \in F : ToggleLog(p, ok)
    \/ \E ok \in F : DeleteKeyDelete(p, ok)
    \/ \E ok \in F : DeleteKeyLog(p, ok)
    \/ \E ok \in F : StatsKeys(p, ok)
    \/ \E ok \in F, k \in Keys : StatsQuery(p, k, ok)
    \/ \E ok \in F : CreateUserInsert(p, ok)
    \/ \E ok \in F : UpdateRoleUpdate(p, ok)
    \/ \E ok \in F : DeleteUserDelete(p, ok)
    \/ \E ok \in F : ResetCommentsDelete(p, ok)

LiveNext(P, F) == \E p \in P : LiveArrival(p) \/ LiveProgress(p, F) \/ Return(p)

\* Every route with every query allowed to fail; the store answers every
\* query (pg resolves or rejects the promise) and the event loop runs the
\* continuation of every answered query: weak fairness of each slot's steps.
SpecLive ==
    /\ InitPresence
    /\ [][LiveNext({1}, BOOLEAN)]_vars
    /\ WF_vars(LiveProgress(1, BOOLEAN))

\* ------------------------------------------------------------------ claims

\* The slot p takes a step of its handler (every step moves pc[p]).
Steps(p) == pc'[p] # pc[p]

IsDone(p, op) == pc[p] = "done" /\ req[p].op = op

\* C1: a verify of a key that is no row of license_keys at the lookup goes on
\* to log invalid_key and answers valid=false, "invalid key"; neither step
\* changes a row of license_keys.
C1_VerifyUnknownKey ==
    [][\A p \in Procs :
        /\ (pc[p] = "verify_select" /\ Steps(p)
               /\ req[p].licenseKey \notin DOMAIN license_keys)
           => /\ pc'[p] = "verify_log_invalid"
              /\ license_keys' = license_keys
        /\ (pc[p] = "verify_log_invalid" /\ Steps(p))
           => /\ pc'[p] = "done"
              /\ resp'[p].status = 200
              /\ resp'[p].valid = FALSE
              /\ resp'[p].message = "Cle de licence invalide"
              /\ license_keys' = license_keys]_vars

C1_Witness ==
    \E p \in Procs :
        /\ IsDone(p, "verify")
        /\ req[p].licenseKey # NULL
        /\ req[p].licenseKey \notin DOMAIN license_keys
        /\ resp[p].message = "Cle de licence invalide"

LastLog == access_logs[Len(access_logs)]

\* C2: create-key stores the row of the token it returns with the owner
\* asked for, active; a verify of a key that is a row and active, run alone,
\* answers valid=true with the row's owner, has set last_used (to NOW() of
\* its update) and has appended exactly one row (verify, success).
C2_CreateThenVerify ==
    /\ [](\A p \in Procs :
            (IsDone(p, "verify") /\ req[p].licenseKey \in DOMAIN license_keys
                /\ license_keys[req[p].licenseKey].active)
            => LET k == req[p].licenseKey IN
               /\ resp[p].status = 200
               /\ resp[p].valid = TRUE
               /\ resp[p].owner = license_keys[k].owner
               /\ license_keys[k].last_used # NoTime
               /\ Len(access_logs) > 0
               /\ LastLog.license_key = k
               /\ LastLog.action = "verify"
               /\ LastLog.status = "success")
    /\ [][\A p \in Procs :
            /\ (pc[p] = "create_key_insert" /\ Steps(p) /\ resp'[p].status = 200)
               => LET k == resp'[p].licenseKey IN
                  /\ k \notin DOMAIN license_keys
                  /\ k \in DOMAIN license_keys'
                  /\ license_keys'[k].owner = req[p].owner
                  /\ license_keys'[k].active
            /\ (pc[p] \in {"verify_select", "verify_update"} /\ Steps(p))
               => access_logs' = access_logs
            /\ (pc[p] = "verify_update" /\ Steps(p))
               => license_keys'[req[p].licenseKey].last_used = now
            /\ (pc[p] = "verify_log_success" /\ Steps(p))
               => /\ Len(access_logs') = Len(access_logs) + 1
                  /\ pc'[p] = "done"]_vars

C2_Witness ==
    \E p \in Procs :
        /\ IsDone(p, "verify")
        /\ resp[p].status = 200 /\ resp[p].valid
        /\ resp[p].owner = "Y"
        /\ license_keys[req[p].licenseKey].last_used = TickSeconds

\* C3: with requests run one after another, a toggle flips the key's active
\* flag and reports the new value; a verify of an inactive key answers
\* valid=false, "deactivated", and a verify of an active key valid=true.
C3_ToggleInvolution ==
    /\ [](\A p \in Procs :
            /\ (IsDone(p, "toggle-key") /\ resp[p].status = 200)
               => /\ req[p].licenseKey \in DOMAIN license_keys
                  /\ license_keys[req[p].licenseKey].active = resp[p].active
            /\ (IsDone(p, "verify") /\ req[p].licenseKey \in DOMAIN license_keys)
               => IF license_keys[req[p].licenseKey].active
                  THEN resp[p].valid = TRUE
                  ELSE /\ resp[p].valid = FALSE
                       /\ resp[p].message = "Cle de licence desactivee")
    /\ [][\A p \in Procs :
            (pc[p] = "toggle_update" /\ Steps(p))
            => LET k == req[p].licenseKey IN
               /\ k \in DOMAIN license_keys
               /\ license_keys' = [license_keys EXCEPT
                                     ![k].active = ~license_keys[k].active]]_vars

C3_Witness ==
    \E p \in Procs :
        /\ IsDone(p, "toggle-key")
        /\ resp[p].status = 200 /\ resp[p].active = TRUE
        /\ Len(access_logs) = 2
        /\ access_logs[1].status = "deactivated"
        /\ access_logs[2].status = "activated"
        /\ access_logs[1].license_key = access_logs[2].license_key

\* The status a verify response stands for.
Outcome(r) ==
    IF r.valid THEN "success"
    ELSE IF r.message = "Cle de licence invalide" THEN "invalid_key" ELSE "inactive"

\* C4: every verify that is answered after its lookup (invalid key, inactive
\* or success) has a row (key, verify, its outcome) in access_logs, and the
\* handler appends exactly one row: none before its logAccess, one in it.
C4_VerifyAlwaysLogged ==
    /\ [](\A p \in Procs :
            (IsDone(p, "verify") /\ resp[p].status = 200)
            => \E i \in 1..Len(access_logs) :
                  /\ access_logs[i].license_key = req[p].licenseKey
                  /\ access_logs[i].action = "verify"
                  /\ access_logs[i].status = Outcome(resp[p]))
    /\ [][\A p \in Procs :
            /\ (pc[p] \in {"verify_select", "verify_update"} /\ Steps(p))
               => /\ access_logs' = access_logs
                  /\ pc'[p] \in {"verify_update", "verify_log_invalid",
                                 "verify_log_inactive", "verify_log_success"}
            /\ (pc[p] \in {"verify_log_invalid", "verify_log_inactive",
                           "verify_log_success"} /\ Steps(p))
               => /\ pc'[p] = "done"
                  /\ resp'[p].status = 200
                  /\ access_logs' = Append(access_logs,
                        [license_key |-> req[p].licenseKey, action |-> "verify",
                         status |-> Outcome(resp'[p]), ip_address |-> NULL,
                         timestamp |-> now])
                  /\ pc[p] = CASE Outcome(resp'[p]) = "success" -> "verify_log_success"
                               [] Outcome(resp'[p]) = "inactive" -> "verify_log_inactive"
                               [] OTHER -> "verify_log_invalid"]_vars

C4_Witness ==
    \E p \in Procs :
        /\ IsDone(p, "verify")
        /\ resp[p].message = "Cle de licence desactivee"
        /\ LastLog.status = "inactive"

\* The requests the claim lets through: the static password, or the
\* username and password of an account whose role is admin or creator.
Authorized(r, tbl) ==
    \/ r.password = ADMIN_PASSWORD
    \/ /\ r.username \in DOMAIN tbl
       /\ tbl[r.username].password = r.password
       /\ tbl[r.username].role \in {"admin", "creator"}

\* C5: an admin request that is not authorized when the gate decides is
\* answered 401 and changes no table; the gate itself changes no table; a
\* handler behind the gate runs, and a table changes, only for a request that
\* was granted the role admin or creator, and a role is granted only to an
\* authorized request.
C5_GateOnlyAdmits ==
    /\ [](\A p \in Procs :
            (req[p].op \in AdminOps /\ pc[p] # "auth_select"
                /\ ~(pc[p] = "done" /\ resp[p] = Unauthorized))
            => loc[p].userRole \in {"admin", "creator"})
    /\ [][\A p \in Procs :
            /\ (pc[p] = "idle" /\ Steps(p) /\ req'[p].op \in AdminOps)
               => /\ db' = db
                  /\ IF req'[p].password = ADMIN_PASSWORD
                     THEN loc'[p].userRole = "admin"
                     ELSE \/ pc'[p] = "auth_select" /\ loc'[p].userRole = NULL
                          \/ pc'[p] = "done" /\ resp'[p] = Unauthorized
                                /\ loc'[p].userRole = NULL
            /\ (pc[p] = "auth_select" /\ Steps(p))
               => /\ db' = db
                  /\ \/ pc'[p] = "done" /\ resp'[p] = Unauthorized
                           /\ loc'[p].userRole = NULL
                     \/ /\ Authorized(req[p], users)
                        /\ loc'[p].userRole = users[req[p].username].role
            /\ (req[p].op \in AdminOps /\ Steps(p) /\ db' # db)
               => loc[p].userRole \in {"admin", "creator"}
            /\ (req[p].op \in AdminOps /\ pc[p] = "done" /\ resp[p] = Unauthorized)
               => db' = db]_vars

C5_Witness ==
    \E p \in Procs :
        /\ IsDone(p, "delete-key")
        /\ resp[p] = Unauthorized
        /\ req[p].username = "u1" /\ req[p].password = "pw"
        /\ "u1" \in DOMAIN users
        /\ users["u1"].password = "pw" /\ users["u1"].role = "va"
        /\ "TW-A" \in DOMAIN license_keys

\* C6: no toggle is lost: when the UPDATE of a toggle-key runs, the key's
\* active flag becomes the negation of what it was, whatever other requests
\* are in flight.
C6_NoLostToggle ==
    [][\A p \in Procs :
        (pc[p] = "toggle_update" /\ Steps(p)
            /\ req[p].licenseKey \in DOMAIN license_keys)
        => license_keys'[req[p].licenseKey].active
              = ~license_keys[req[p].licenseKey].active]_vars

\* The addresses that have a sighting for key k.
Sighted(k, tbl) == {r.ip_address : r \in {x \in tbl : x.license_key = k}}

\* C7: whenever heartbeats have answered success, under every interleaving,
\* each has its sighting (key, address) in key_ips; two answered heartbeats of
\* the same existing key from two addresses leave both sightings, and the
\* key's count of distinct addresses is 2.
C7_ConcurrentHeartbeats ==
    /\ \A p \in Procs :
         (IsDone(p, "heartbeat") /\ resp[p].status = 200)
         => \E r \in key_ips : /\ r.license_key = req[p].licenseKey
                               /\ r.ip_address = req[p].ip
    /\ \A p, q \in Procs :
         (/\ IsDone(p, "heartbeat") /\ IsDone(q, "heartbeat")
          /\ req[p].licenseKey = req[q].licenseKey
          /\ req[p].licenseKey \in DOMAIN license_keys
          /\ req[p].ip # req[q].ip)
         => /\ resp[p].status = 200 /\ resp[q].status = 200
            /\ UniqueIps(req[p].licenseKey) = 2

C7_Witness ==
    /\ IsDone(1, "heartbeat") /\ IsDone(2, "heartbeat")
    /\ req[1].licenseKey = "TW-A" /\ req[2].licenseKey = "TW-A"
    /\ req[1].ip # req[2].ip
    /\ UniqueIps("TW-A") = 2

\* C8: key_ips holds at most one row per (key, address), each with
\* first_seen <= last_seen; a heartbeat's trackIP adds its address to the
\* key's sightings (the count grows by one exactly for a new address), sets
\* last_seen to NOW() and leaves first_seen of a present row as it was; no
\* step removes a sighting, changes a first_seen or lowers a last_seen; and
\* the statistics report the count of distinct addresses.
C8_SightingUpsert ==
    /\ [](/\ \A r \in key_ips : r.first_seen <= r.last_seen
          /\ \A r1, r2 \in key_ips :
               (r1.license_key = r2.license_key /\ r1.ip_address = r2.ip_address)
               => r1 = r2
          /\ \A k \in Keys : UniqueIps(k) = Cardinality(IpsOf(k))
          /\ \A p \in Procs :
               (IsDone(p, "detailed-stats") /\ resp[p].status = 200)
               => \A k \in DOMAIN resp[p].stats :
                      resp[p].stats[k].uniqueIps = Cardinality(Sighted(k, key_ips)))
    /\ [][/\ \A r \in key_ips :
               \E r2 \in key_ips' :
                   /\ r2.license_key = r.license_key
                   /\ r2.ip_address = r.ip_address
                   /\ r2.first_seen = r.first_seen
                   /\ r2.last_seen >= r.last_seen
          /\ \A p \in Procs :
               (pc[p] = "heartbeat_track" /\ Steps(p))
               => LET k == req[p].licenseKey
                      a == req[p].ip
                  IN /\ Sighted(k, key_ips') = Sighted(k, key_ips) \cup {a}
                     /\ \A j \in Keys \ {k} : IpsOf(j)' = IpsOf(j)
                     /\ \E r \in key_ips' :
                           /\ r.license_key = k /\ r.ip_address = a
                           /\ r.last_seen = now
                           /\ a \notin Sighted(k, key_ips) => r.first_seen = now]_vars

C8_Witness ==
    /\ UniqueIps("TW-A") = 2
    /\ \E r \in key_ips : r.license_key = "TW-A" /\ r.first_seen < r.last_seen
    /\ \E p \in Procs : IsDone(p, "heartbeat") /\ req[p].licenseKey = "TW-A"

\* C9 as stated: the is_online the statistics query computes for a key is
\* true exactly when last_heartbeat is not NULL and NOW() - last_heartbeat is
\* at most 60 seconds.
C9_OnlineWithinWindow ==
    [][\A p \in Procs :
        (pc[p] = "stats_keys" /\ Steps(p) /\ pc'[p] = "stats_counts")
        => \A k \in DOMAIN license_keys :
              (loc'[p].rows[k].is_online = "true")
              <=> (/\ license_keys[k].last_heartbeat # NoTime
                   /\ now - license_keys[k].last_heartbeat <= Window)]_vars

\* C9 as amended: true exactly when last_heartbeat is not NULL and
\* NOW() - last_heartbeat is less than 60 seconds (at exactly 60 seconds:
\* false; never a heartbeat: NULL), and the response reports that value.
C9_OnlineStrictlyWithinWindow ==
    /\ [](\A p \in Procs :
            (IsDone(p, "detailed-stats") /\ resp[p].status = 200)
            => \A k \in DOMAIN resp[p].stats :
                  resp[p].stats[k].isOnline = loc[p].rows[k].is_online)
    /\ [][\A p \in Procs :
            (pc[p] = "stats_keys" /\ Steps(p) /\ pc'[p] = "stats_counts")
            => \A k \in DOMAIN license_keys :
                  LET hb == license_keys[k].last_heartbeat
                      on == loc'[p].rows[k].is_online
                  IN /\ (on = "true") <=> (hb # NoTime /\ now - hb < Window)
                     /\ (on = NULL) <=> (hb = NoTime)
                     /\ (hb = now) => on = "true"
                     /\ (hb # NoTime /\ now - hb > Window) => on = "false"]_vars

C9_Witness ==
    \E p \in Procs :
        /\ pc[p] = "stats_counts"
        /\ license_keys["TW-A"].last_heartbeat # NoTime
        /\ now - license_keys["TW-A"].last_heartbeat = Window
        /\ loc[p].rows["TW-A"].is_online = "false"

\* C10: a heartbeat for a key that is no row of license_keys is answered
\* 404 and leaves no sighting for that key.
C10_HeartbeatUnknownKey ==
    \A p \in Procs :
        (IsDone(p, "heartbeat") /\ req[p].licenseKey # NULL
            /\ req[p].licenseKey \notin DOMAIN license_keys)
        => /\ resp[p].status = 404
           /\ IpsOf(req[p].licenseKey) = {}

\* C11: each accepted heartbeat (answered 200 for a key that is a row of
\* license_keys) has appended a row (key, heartbeat) to access_logs, as a
\* successful verify, toggle-key and delete-key append theirs.
C11_HeartbeatLogged ==
    \A p \in Procs :
        (IsDone(p, "heartbeat") /\ resp[p].status = 200
            /\ req[p].licenseKey \in DOMAIN license_keys)
        => \E i \in 1..Len(access_logs) :
              /\ access_logs[i].license_key = req[p].licenseKey
              /\ access_logs[i].action = "heartbeat"

\* C12: while the server runs on a database that initDatabase has set up,
\* whatever create-user, update-user-role, delete-user, login and further
\* initDatabase runs do, the row "creator" is there with the role creator and
\* the password initDatabase gave it, and no other row has the role creator.
C12_SingleCreator ==
    /\ "creator" \in DOMAIN users
    /\ users["creator"].role = CreatorRow.role
    /\ users["creator"].password = CreatorRow.password
    /\ \A u \in DOMAIN users : users[u].role = "creator" => u = "creator"

C12_Witness ==
    \E p \in Procs :
        /\ IsDone(p, "create-user")
        /\ req[p].newUsername = "creator"
        /\ resp[p] = BadRequest("Ce nom d'utilisateur existe deja")
        /\ "u1" \in DOMAIN users
        /\ users["creator"].last_login # NoTime

\* The request r is a delete-user or an update-user-role aimed at "creator".
AimsAtCreator(r) ==
    /\ r.op \in {"delete-user", "update-user-role"}
    /\ r.targetUsername = "creator"

\* C13: a delete-user or update-user-role whose target is "creator" never
\* reaches a query of users: once checkAdminAuth has granted a role (admin or
\* creator, by the static password or by an account), the answer is 403,
\* whatever the new role and the key asked for; no step of such a request
\* changes the table users.
C13_CreatorProtected ==
    [][\A p \in Procs :
          (Steps(p) /\ AimsAtCreator(req'[p]))
          => /\ users' = users
             /\ pc'[p] \in {"auth_select", "done"}
             /\ (pc'[p] = "done" /\ resp'[p] # Unauthorized)
                   => /\ resp'[p].status = 403
                      /\ loc'[p].userRole \in {"admin", "creator"}
             /\ loc'[p].userRole # NULL => pc'[p] = "done"]_vars

C13_Witness ==
    \E p \in Procs :
        /\ IsDone(p, "update-user-role")
        /\ req[p].targetUsername = "creator"
        /\ req[p].newRole = "admin"
        /\ loc[p].userRole = "creator"
        /\ resp[p].status = 403
        /\ "u1" \in DOMAIN users

\* The request r asks for the role va without a license key.
LacksKey(r) ==
    \/ r.op = "create-user" /\ r.role = "va" /\ r.licenseKey = NULL
    \/ r.op = "update-user-role" /\ r.newRole = "va" /\ r.newLicenseKey = NULL

\* C14: a create-user or update-user-role asking for the role va without a
\* license key is answered 400 once admitted, and none of its steps changes
\* the table users.
C14_KeyRequiredForVa ==
    [][\A p \in Procs :
          (Steps(p) /\ LacksKey(req'[p]))
          => /\ users' = users
             /\ pc'[p] \in {"auth_select", "done"}
             /\ (pc'[p] = "done" /\ resp'[p] # Unauthorized)
                   => resp'[p].status = 400]_vars

\* C14 as amended: the same, except that update-user-role tests the target
\* first: for the target "creator" the answer is 403, for any other target
\* 400 "Cle de licence requise pour les VAs"; users is unchanged in both.
C14_KeyRequiredForVaUnlessCreator ==
    [][\A p \in Procs :
          (Steps(p) /\ LacksKey(req'[p]))
          => /\ users' = users
             /\ pc'[p] \in {"auth_select", "done"}
             /\ (pc'[p] = "done" /\ resp'[p] # Unauthorized)
                   => IF AimsAtCreator(req'[p])
                      THEN resp'[p].status = 403
                      ELSE resp'[p] = BadRequest("Cle de licence requise pour les VAs")
             /\ loc'[p].userRole # NULL => pc'[p] = "done"]_vars

C14_Witness ==
    \E p \in Procs :
        /\ IsDone(p, "update-user-role")
        /\ req[p].targetUsername = "u1"
        /\ LacksKey(req[p])
        /\ resp[p].status = 400
        /\ "u1" \in DOMAIN users
        /\ users["u1"].role = "admin"

\* The request r asks for a role other than va and carries a license key.
HasStrayKey(r) ==
    \/ r.op = "create-user" /\ r.role # "va" /\ r.licenseKey # NULL
    \/ r.op = "update-user-role" /\ r.newRole # "va" /\ r.newLicenseKey # NULL

\* C15: a create-user or update-user-role asking for a role other than va
\* with a license key in the body is answered 400 once admitted, and none of
\* its steps changes the table users.
C15_KeyRefusedForOthers ==
    [][\A p \in Procs :
          (Steps(p) /\ HasStrayKey(req'[p]) /\ ~AimsAtCreator(req'[p]))
          => /\ users' = users
             /\ (pc'[p] = "done" /\ resp'[p] # Unauthorized /\ resp'[p] # ServerError)
                   => resp'[p].status = 400]_vars

\* C16: every row of users has a license key exactly when its role is va.
C16_KeyIffVa ==
    \A u \in DOMAIN users : (users[u].license_key # NULL) <=> (users[u].role = "va")

\* C17: the INSERT of create-user for a username that is a row of users is
\* answered 400 "existe deja" and leaves users as it was; for a username that
\* is no row it adds the row asked for and nothing else, and is answered 200.
\* So of two create-user requests in flight for the same new username the
\* first INSERT succeeds and the second one is refused.
C17_UniqueUsername ==
    [][\A p \in Procs :
          (pc[p] = "create_user_insert" /\ Steps(p))
          => LET r == req[p] IN
             IF r.newUsername \in DOMAIN users
             THEN /\ resp'[p] = BadRequest("Ce nom d'utilisateur existe deja")
                  /\ users' = users
             ELSE /\ resp'[p].status = 200
                  /\ DOMAIN users' = DOMAIN users \cup {r.newUsername}
                  /\ \A u \in DOMAIN users : users'[u] = users[u]
                  /\ users'[r.newUsername].password = r.userPassword
                  /\ users'[r.newUsername].role = r.role]_vars

\* Both slots were past the gate with a create-user for u1; one has created
\* the account, the other one has been refused.
C17_Witness ==
    /\ IsDone(1, "create-user") /\ IsDone(2, "create-user")
    /\ req[1].newUsername = "u1" /\ req[2].newUsername = "u1"
    /\ req[1].userPassword # req[2].userPassword
    /\ resp[1].status = 200
    /\ resp[2] = BadRequest("Ce nom d'utilisateur existe deja")
    /\ users["u1"].password = req[1].userPassword

\* C18: the DELETE of reset-comments for the key k leaves in access_logs, in
\* their order, exactly the rows that are not (k, comment_posted): the rows of
\* k with another action and the rows of other keys are kept as they are, no
\* row (k, comment_posted) is left, and deletedCount is the number of rows
\* that went away.
C18_ResetRemovesOnlyComments ==
    [][\A p \in Procs :
          (pc[p] = "reset_comments_delete" /\ Steps(p) /\ resp'[p].status = 200)
          => LET k == req[p].licenseKey
                 kept == {i \in 1..Len(access_logs) : ~IsCommentOf(access_logs[i], k)}
                 rank(i) == Cardinality({j \in kept : j <= i})
             IN /\ Len(access_logs') = Cardinality(kept)
                /\ \A i \in kept : access_logs'[rank(i)] = access_logs[i]
                /\ \A i \in 1..Len(access_logs') : ~IsCommentOf(access_logs'[i], k)
                /\ resp'[p].deletedCount = Len(access_logs) - Cardinality(kept)]_vars

\* A reset that removed one comment of its key and kept a verify of that key.
C18_Witness ==
    \E p \in Procs :
        /\ IsDone(p, "reset-comments")
        /\ resp[p].status = 200
        /\ resp[p].deletedCount = 1
        /\ Len(access_logs) = 1
        /\ access_logs[1].license_key = req[p].licenseKey
        /\ access_logs[1].action = "verify"

\* C19: a logAccess whose INSERT fails (access_logs is left as it was) during
\* a successful verify, a toggle-key or a delete-key changes neither the
\* answer nor the table license_keys: the answer is the normal success, and
\* when it is sent last_used is set, active is the value answered, the row of
\* a deleted key is gone.
C19_LogFailureHarmless ==
    /\ [](\A p \in Procs :
            LET k == req[p].licenseKey IN
            /\ (IsDone(p, "verify") /\ resp[p].status = 200 /\ resp[p].valid)
                   => k \in DOMAIN license_keys /\ license_keys[k].last_used = now
            /\ (IsDone(p, "toggle-key") /\ resp[p].status = 200)
                   => k \in DOMAIN license_keys /\ license_keys[k].active = resp[p].active
            /\ (IsDone(p, "delete-key") /\ resp[p].status = 200)
                   => k \notin DOMAIN license_keys)
    /\ [][\A p \in Procs :
            (pc[p] \in {"verify_log_success", "toggle_log", "delete_key_log"}
                /\ Steps(p) /\ access_logs' = access_logs)
            => /\ pc'[p] = "done"
               /\ resp'[p].status = 200
               /\ license_keys' = license_keys
               /\ CASE pc[p] = "verify_log_success" ->
                          resp'[p] = VerifyValid(license_keys[req[p].licenseKey].owner)
                    [] pc[p] = "toggle_log" ->
                          /\ resp'[p].success
                          /\ resp'[p].active = license_keys[req[p].licenseKey].active
                    [] pc[p] = "delete_key_log" ->
                          /\ resp'[p].success
                          /\ req[p].licenseKey \notin DOMAIN license_keys]_vars

\* A toggle-key answered 200 whose row was never logged.
C19_Witness ==
    \E p \in Procs :
        /\ IsDone(p, "toggle-key")
        /\ resp[p].status = 200
        /\ access_logs = <<>>
        /\ license_keys["TW-A"].active = FALSE

\* C20: create-key never issues a token that was issued before: the token of
\* a successful create-key is no row of license_keys before the INSERT, and
\* access_logs holds no row (token, delete), the row that the deletion of an
\* earlier key with the same token has left.
C20_TokenNeverReissued ==
    [][\A p \in Procs :
          (pc[p] = "create_key_insert" /\ Steps(p) /\ resp'[p].status = 200)
          => /\ resp'[p].licenseKey \notin DOMAIN license_keys
             /\ \A i \in 1..Len(access_logs) :
                   ~(/\ access_logs[i].license_key = resp'[p].licenseKey
                     /\ access_logs[i].action = "delete")]_vars

\* The slot p is at the lookup of a toggle-key, delete-key or delete-user
\* whose target is no row of its table.
TargetAbsent(p) ==
    \/ /\ pc[p] \in {"toggle_select", "delete_key_delete"}
       /\ req[p].licenseKey \notin DOMAIN license_keys
    \/ /\ pc[p] = "delete_user_delete"
       /\ req[p].targetUsername \notin DOMAIN users

\* C21: a toggle-key or delete-key whose key is no row of license_keys at the
\* lookup, and a delete-user whose username is no row of users, is answered
\* at that step (404, or 500 when the query itself fails) and the step
\* changes no table: no row of license_keys or users, no row appended to
\* access_logs.
C21_AbsentTargetNotFound ==
    [][\A p \in Procs :
          (TargetAbsent(p) /\ Steps(p))
          => /\ pc'[p] = "done"
             /\ resp'[p].status \in {404, 500}
             /\ resp'[p].status = 404
                   => resp'[p] = IF req[p].op = "delete-user"
                                 THEN [status |-> 404, success |-> FALSE,
                                       message |-> "Utilisateur non trouve"]
                                 ELSE KeyNotFound
             /\ db' = db]_vars

\* A delete-key of a key that was never created, answered 404.
C21_Witness ==
    \E p \in Procs :
        /\ IsDone(p, "delete-key")
        /\ resp[p] = KeyNotFound
        /\ req[p].licenseKey \notin DOMAIN license_keys
        /\ access_logs = <<>>

\* C22: an update-user-role whose target is no row of users at the UPDATE is
\* answered as a failure (404, success false) and changes no row of users.
C22_UpdateRoleAbsentTarget ==
    [][\A p \in Procs :
          (pc[p] = "update_role_update" /\ Steps(p)
              /\ req[p].targetUsername \notin DOMAIN users)
          => /\ users' = users
             /\ resp'[p].status \in {404, 500}
             /\ ~resp'[p].success]_vars

\* s is a prefix of t.
IsPrefix(s, t) == Len(s) <= Len(t) /\ \A i \in 1..Len(s) : t[i] = s[i]

\* The rows of s whose index is in S, in their order.
Pick(s, S) ==
    LET idx[i \in 0..Len(s)] ==
            IF i = 0 THEN <<>>
            ELSE IF i \in S THEN Append(idx[i - 1], s[i]) ELSE idx[i - 1]
    IN idx[Len(s)]

\* C23: every step either leaves the rows of access_logs as they are and
\* appends rows after them, or is the DELETE of a reset-comments, which keeps
\* the other rows unchanged in their order and removes only rows whose action
\* is comment_posted; so no row is ever modified, and no step of delete-key
\* removes a row.
C23_AppendOnlyLog ==
    [][\/ IsPrefix(access_logs, access_logs')
       \/ \E p \in Procs :
             /\ pc[p] = "reset_comments_delete" /\ Steps(p)
             /\ \E S \in SUBSET (1..Len(access_logs)) :
                   /\ access_logs' = Pick(access_logs, S)
                   /\ \A i \in (1..Len(access_logs)) \ S :
                         access_logs[i].action = "comment_posted"]_vars

\* The key TW-B has been deleted and its earlier row is still in the log,
\* before the row of the deletion.
C23_Witness ==
    /\ "TW-B" \notin DOMAIN license_keys
    /\ Len(access_logs) = 2
    /\ access_logs[1].license_key = "TW-B"
    /\ access_logs[1].action \in {"verify", "comment_posted"}
    /\ access_logs[2].license_key = "TW-B"
    /\ access_logs[2].action = "delete"

\* C24: the license key of every row of users with the role va is a row of
\* license_keys.
C24_VaKeyExists ==
    \A u \in DOMAIN users :
        users[u].role = "va" => users[u].license_key \in DOMAIN license_keys

\* C25: every admin request that checkAdminAuth refuses gets the one answer
\* 401 "Authentification requise", with no role set: the answer after the
\* query is the same whether the username is a row of users (wrong password,
\* or a role that is not let through) or not, and the same as without
\* credentials.
C25_UniformRefusal ==
    [][\A p \in Procs :
          (Steps(p) /\ req'[p].op \in AdminOps /\ pc'[p] = "done"
              /\ loc'[p].userRole = NULL)
          => resp'[p] = Unauthorized]_vars

\* Refused with the username of an account and a wrong password.
C25_Witness ==
    \E p \in Procs :
        /\ pc[p] = "done" /\ req[p].op \in AdminOps
        /\ resp[p] = Unauthorized
        /\ req[p].username \in DOMAIN users
        /\ req[p].username = "u1"
        /\ users["u1"].password # req[p].password

\* C26: for a key with no heartbeat in flight, the row of key_ips for the
\* key and its last_ip exists and no row of the key has a later last_seen.
C26_LastAddressIsLatestSighting ==
    \A k \in DOMAIN license_keys :
        (/\ license_keys[k].last_ip # NULL
         /\ \A p \in Procs :
               (req[p].op = "heartbeat" /\ req[p].licenseKey = k) => pc[p] = "done")
        => \E r \in key_ips :
              /\ r.license_key = k
              /\ r.ip_address = license_keys[k].last_ip
              /\ \A r2 \in key_ips : r2.license_key = k => r2.last_seen <= r.last_seen

\* C27: the UPDATE of last_used by a verify finds its key active: a verify
\* writes last_used, and goes on to answer valid=true, only for a key whose
\* row is active when the UPDATE runs.
C27_LastUsedOnlyWhileActive ==
    [][\A p \in Procs :
          (pc[p] = "verify_update" /\ Steps(p) /\ pc'[p] = "verify_log_success"
              /\ req[p].licenseKey \in DOMAIN license_keys)
          => license_keys[req[p].licenseKey].active]_vars

\* The log holds the row (k, delete).
Deleted(k) ==
    \E i \in 1..Len(access_logs) :
        access_logs[i].license_key = k /\ access_logs[i].action = "delete"

\* C28: after the row (k, delete, success) no row (k, verify, success) and
\* no row (k, toggle) is appended for the deleted key: a verify or toggle-key
\* that logs its success has updated a row of license_keys that exists.
C28_NoSuccessAfterDelete ==
    [][\A p \in Procs :
          (pc[p] \in {"verify_log_success", "toggle_log"} /\ Steps(p)
              /\ Len(access_logs') > Len(access_logs))
          => ~(/\ Deleted(req[p].licenseKey)
               /\ req[p].licenseKey \notin DOMAIN license_keys)]_vars

\* C29: when a heartbeat is answered 200 the row of key_ips for its key and
\* address exists, with a last_seen not before the last_heartbeat that the
\* same heartbeat has written.
C29_SuccessMeansSighted ==
    \A p \in Procs :
        (IsDone(p, "heartbeat") /\ resp[p].status = 200)
        => \E r \in key_ips :
              /\ r.license_key = req[p].licenseKey
              /\ r.ip_address = req[p].ip
              /\ req[p].licenseKey \in DOMAIN license_keys
                    => r.last_seen >= license_keys[req[p].licenseKey].last_heartbeat

\* C30: the number of rows (k, comment_posted) is the number of log-comment
\* requests for k answered 200 since the last reset-comments of k; so, with
\* one request at a time, when a log-comment for k has just been answered
\* 200 the count of k is at least one.
C30_CommentCounted ==
    \A p \in Procs :
        (IsDone(p, "log-comment") /\ resp[p].status = 200)
        => CountByAction(req[p].licenseKey, "comment_posted") >= 1

\* The step of the slot p is one whose query visibly failed: the gate
\* refuses credentials that a row of users grants, a logAccess leaves
\* access_logs as it was, a trackIP leaves key_ips without the row of its
\* key and address.
VisiblyFailed(p) ==
    \/ /\ pc[p] = "auth_select"
       /\ GrantedRole(req[p], users) # NULL
       /\ loc'[p].userRole = NULL
    \/ /\ pc[p] \in {"verify_log_invalid", "verify_log_inactive", "verify_log_success",
                     "toggle_log", "delete_key_log"}
       /\ access_logs' = access_logs
    \/ /\ pc[p] = "heartbeat_track"
       /\ req[p].ip \notin Sighted(req[p].licenseKey, key_ips')

====
